---- MODULE Spec2Model ----
(***************************************************************************)
(* Weekly recommendations: the weekly cycle (Week), submissions, streaks   *)
(* and invitations, as the services drive them against the store.          *)
(*                                                                         *)
(* Every async handler is cut at its store accesses: one action is one     *)
(* store access together with the synchronous code that follows it up to   *)
(* the next await.  Handlers of different triggers (the three cron jobs,   *)
(* the admin routes, the inbound-email webhook, the invite routes)         *)
(* interleave at these points.                                             *)
(***************************************************************************)
EXTENDS Integers, Sequences, FiniteSets, Bags, TLC

VARIABLES
    config,       \* the configuration read from the environment
    now,          \* the clock: days since Sunday 2023-12-31
    weeks,        \* table Week: sequence of rows, the id is the index
    submissions,  \* table Submission: bag of <<userId, weekId>> rows
    users,        \* table User: email -> row (the email stands for the id)
    streaks,      \* table UserStreak: userId -> row
    invites,      \* table Invite: sequence of rows, the token is the index
    pc,           \* where each trigger's handler stands
    loc,          \* each handler's local variables
    last,         \* the result a handler returns, until its caller has it
    promptsSent,  \* number of weekly prompt batches handed to the mailer
    eligNotified, \* per member: eligibility notifications handed to the mailer
    cronFired,    \* the weekly cron jobs that have fired at this instant
    history,      \* history: the weeks closeWeekAndCompile has closed, the
                  \* streak updates applied per member and week, the
                  \* invitation mails sent, the users created, the
                  \* successful returns per invitation token and the
                  \* notifications of the daily check per member
    calc          \* a calendar function on its own: arguments and result

vars == <<config, now, weeks, submissions, users, streaks, invites, pc, loc,
          last, promptsSent, eligNotified, cronFired, history, calc>>

(***************************************************************************)
(* Bounds of the model.                                                    *)
(***************************************************************************)
MaxWeeks == 3
MaxClockWeeks == 1
MaxInviteRows == 3
MaxInFlight == 2
MaxCalendarDays == 35
MaxCalendarYears == 2

(***************************************************************************)
(* Configuration: parseInt(process.env.X) || default.                      *)
(***************************************************************************)
StreakRequired == 4
MaxInvitesPerUser == 5
InviteExpiryDays == 7

DefaultConfig == [streakRequired |-> StreakRequired,
                  maxInvitesPerUser |-> MaxInvitesPerUser,
                  inviteExpiryDays |-> InviteExpiryDays]

\* a deployment with STREAK_REQUIRED_FOR_INVITE=2, MAX_INVITES_PER_USER=2
\* and INVITE_EXPIRY_DAYS=3
SmallConfig == [streakRequired |-> 2, maxInvitesPerUser |-> 2,
                inviteExpiryDays |-> 3]

\* a deployment with STREAK_REQUIRED_FOR_INVITE=1, MAX_INVITES_PER_USER=1
\* and INVITE_EXPIRY_DAYS=3
TightConfig == [streakRequired |-> 1, maxInvitesPerUser |-> 1,
                inviteExpiryDays |-> 3]

(***************************************************************************)
(* Calendar.  Day 0 is Sunday 2023-12-31, so d % 7 is the weekday with     *)
(* 0 = Sunday, as moment's day().                                          *)
(***************************************************************************)
Thursday == 4
Sunday == 0

IsLeap(y) == (y % 4 = 0 /\ y % 100 # 0) \/ y % 400 = 0
DaysInYear(y) == IF IsLeap(y) THEN 366 ELSE 365

RECURSIVE YearStart(_)
YearStart(y) == IF y <= 2024 THEN 1 ELSE YearStart(y - 1) + DaysInYear(y - 1)

RECURSIVE YearFrom(_, _)
YearFrom(d, y) == IF d < YearStart(y + 1) THEN y ELSE YearFrom(d, y + 1)

YearOf(d) == YearFrom(d, 2024)
DayOfYear(d) == d - YearStart(YearOf(d)) + 1
Weekday(d) == d % 7

\* moment's weeksInYear and week() for the default locale (dow = 0, doy = 6):
\* week 1 is the week, starting on Sunday, that holds January 1.
WeeksInYear(y) ==
    (DaysInYear(y) + Weekday(YearStart(y)) - Weekday(YearStart(y + 1))) \div 7

MomentWeek(d) ==
    LET y == YearOf(d)
        week == ((DayOfYear(d) + Weekday(YearStart(y)) - 1) \div 7) + 1
    IN  IF week > WeeksInYear(y) THEN week - WeeksInYear(y) ELSE week

\* parseInt(now.format('YYYY')) * 100 + now.week()
WeekNumber(d) == YearOf(d) * 100 + MomentWeek(d)

\* now.clone().day(7).hour(18): 6 PM on the Sunday that follows the day
Deadline(d) == d - Weekday(d) + 7

\* The first instant: Thursday 2024-12-12.
FirstInstant == YearStart(2024) + 346
LastInstant == FirstInstant + 7 * MaxClockWeeks

(***************************************************************************)
(* The store's rows.                                                       *)
(***************************************************************************)
Members == <<"bob", "dana">>              \* users the seed and the operator add
Invitees == <<"emily">>                   \* an address that may be invited
UserOrder == Members \o Invitees          \* the order of the ids
Emails == {UserOrder[i] : i \in DOMAIN UserOrder}

NoUser == [exists |-> FALSE, isActive |-> FALSE, inviteCount |-> 0]
NoStreak == [exists |-> FALSE, currentStreak |-> 0, longestStreak |-> 0,
             lastSubmissionWeek |-> 0, canInvite |-> FALSE]

Procs == {"cron", "admin", "webhook", "web", "web2"}

NoLoc == [op |-> "none", week |-> 0, weekNumber |-> 0,
          subs |-> {}, todo |-> <<>>, snapUsers |-> [e \in Emails |-> NoUser],
          snapStreaks |-> [e \in Emails |-> NoStreak], user |-> "none",
          snapSent |-> [e \in Emails |-> 0], email |-> "none", invite |-> 0,
          expiresAt |-> 0, deadline |-> 0,
          callStreaks |-> [e \in Emails |-> NoStreak],
          callNotified |-> [e \in Emails |-> 0]]

\* the locals of a handler that starts
Enter(op) == [NoLoc EXCEPT !.op = op]

OpenWeeks == {w \in DOMAIN weeks : weeks[w].status = "open"}
ActiveUsers == {e \in Emails : users[e].exists /\ users[e].isActive}
\* does the table hold a row of the user for the week
HasSubmission(rows, e, w) == BagIn(<<e, w>>, rows)

SubmittedIn(w) == {e \in Emails : HasSubmission(submissions, e, w)}

NoLast == [op |-> "none", result |-> "none"]

\* history: nothing closed, no streak update applied
NoHistory == [closes |-> {},
              streakWrites |-> [e \in Emails, w \in 1..MaxWeeks |-> 0],
              mailed |-> 0,
              created |-> [e \in Emails |-> 0],
              createdBy |-> [e \in Emails |-> 0],
              accepts |-> [t \in 1..MaxInviteRows |-> 0],
              sweepGrants |-> [e \in Emails |-> 0]]

\* no calendar function is being computed
NoCalc == [op |-> "none", args |-> <<0, 0>>, result |-> <<>>]

\* history: closeWeekAndCompile has returned successfully for week w
Closed(h, w) == [h EXCEPT !.closes = @ \cup {w}]

\* history: a streak update of member e has been applied for week w
StreakWritten(h, e, w) == [h EXCEPT !.streakWrites[e, w] = @ + 1]

\* a handler returns: its locals are dropped, its result goes to the caller
Return(p, l, r) ==
    /\ pc' = [pc EXCEPT ![p] = "idle"]
    /\ loc' = [loc EXCEPT ![p] = NoLoc]
    /\ last' = [op |-> l.op, result |-> r]

Goto(p, label, l) ==
    /\ pc' = [pc EXCEPT ![p] = label]
    /\ loc' = [loc EXCEPT ![p] = l]
    /\ UNCHANGED last

(***************************************************************************)
(* The seed: prisma/seed (bob's row) and a member added by hand (dana).    *)
(* The seed leaves the weeks before the current one compiled and the       *)
(* current one open.                                                       *)
(***************************************************************************)
SeedUsers ==
    [e \in Emails |->
        IF e = "bob" THEN [exists |-> TRUE, isActive |-> TRUE, inviteCount |-> 1]
        ELSE NoUser]

\* the seeded store after the operator has added a member by hand
UsersWithDana ==
    [SeedUsers EXCEPT !["dana"] = [exists |-> TRUE, isActive |-> TRUE,
                                   inviteCount |-> 0]]

SeedStreaks ==
    [e \in Emails |->
        IF e = "bob"
        THEN [exists |-> TRUE, currentStreak |-> 4, longestStreak |-> 5,
              lastSubmissionWeek |-> WeekNumber(FirstInstant) - 1, canInvite |-> TRUE]
        ELSE NoStreak]

SeedInvites ==
    <<[inviterId |-> "bob", inviteeEmail |-> "frank", status |-> "accepted",
       expiresAt |-> FirstInstant - 1]>>

SeedWeeks ==
    <<[weekNumber |-> WeekNumber(FirstInstant - 7), status |-> "compiled",
       deadline |-> Deadline(FirstInstant - 7)],
      [weekNumber |-> WeekNumber(FirstInstant), status |-> "open",
       deadline |-> Deadline(FirstInstant)]>>

\* the same deployment on the Thursday morning before a week is opened
WeeksBeforeOpening == SubSeq(SeedWeeks, 1, 1)

\* the seed gives the modelled members no submission in the last compiled week
SeedSubmissions == EmptyBag

\* the store with the given configuration and member rows, on the first
\* Thursday, with the current week open or not opened yet
InitWith(cfg, userRows) ==
    /\ config = cfg
    /\ now = FirstInstant
    /\ weeks \in {WeeksBeforeOpening, SeedWeeks}
    /\ submissions = SeedSubmissions
    /\ users = userRows
    /\ streaks = SeedStreaks
    /\ invites = SeedInvites
    /\ pc = [p \in Procs |-> "idle"]
    /\ loc = [p \in Procs |-> NoLoc]
    /\ last = NoLast
    /\ promptsSent = 0
    /\ eligNotified = [e \in Emails |-> 0]
    /\ cronFired = {}
    /\ history = NoHistory

Init == InitWith(DefaultConfig, SeedUsers) /\ calc = NoCalc

(***************************************************************************)
(* Time passes between any two store accesses: the clock moves to the next *)
(* instant at which a cron job is due (Thursday, Sunday, Thursday, ...).   *)
(***************************************************************************)
Tick ==
    /\ now < LastInstant
    /\ now' = IF Weekday(now) = Thursday THEN now + 3 ELSE now + 4
    /\ cronFired' = {}
    /\ UNCHANGED <<history, config, weeks, submissions, users, streaks, invites, pc, loc,
                   last, promptsSent, eligNotified>>

(***************************************************************************)
(* WeeklyAutomation.startNewWeek, from the Thursday cron job and from      *)
(* POST /admin/weeks/start (manualStartWeek).                              *)
(***************************************************************************)
\* the week table takes a row unless its weekNumber is taken (the seed
\* upserts weeks "where: { weekNumber }", so the column is unique)
WeekNumberFree(wn) == \A w \in DOMAIN weeks : weeks[w].weekNumber # wn

\* a check that finds no week, whatever the table holds
ExistingOpenWeekOverlooked == FALSE

\* a check that a closed week blocks as well
ExistingUncompiledWeek ==
    \E w \in DOMAIN weeks : weeks[w].status \in {"open", "closed"}

\* does the open-week check of startNewWeek find a week
ExistingOpenWeek == OpenWeeks # {}

\* the cron expressions: '0 9 * * 4' opens and '0 18 * * 0' closes, each
\* once on its day; the admin's requests come at any time
CronDue(p, job, weekday) ==
    IF p = "cron"
    THEN /\ Weekday(now) = weekday
         /\ job \notin cronFired
         /\ cronFired' = cronFired \cup {job}
    ELSE UNCHANGED cronFired

\* prisma.week.findFirst({status: 'open'}); then the week number of "now"
StartNewWeek_Find(p) ==
    /\ pc[p] = "idle"
    /\ CronDue(p, "startNewWeek", Thursday)
    /\ LET l == Enter("startNewWeek")
       IN  IF ExistingOpenWeek
           THEN Return(p, l, "Week already open")
           ELSE Goto(p, "start_create", [l EXCEPT !.weekNumber = WeekNumber(now),
                                                  !.deadline = Deadline(now)])
    /\ UNCHANGED <<history, config, now, weeks, submissions, users, streaks, invites,
                   promptsSent, eligNotified>>

\* prisma.week.create; a unique violation is thrown to the caller
StartNewWeek_Create(p) ==
    /\ pc[p] = "start_create"
    /\ Len(weeks) < MaxWeeks
    /\ IF WeekNumberFree(loc[p].weekNumber)
       THEN /\ weeks' = Append(weeks, [weekNumber |-> loc[p].weekNumber,
                                       status |-> "open",
                                       deadline |-> loc[p].deadline])
            /\ Goto(p, "start_users", [loc[p] EXCEPT !.week = Len(weeks) + 1])
       ELSE /\ Return(p, loc[p], "threw")
            /\ UNCHANGED weeks
    /\ UNCHANGED <<cronFired, history, config, now, submissions, users, streaks, invites,
                   promptsSent, eligNotified>>

\* prisma.user.findMany({isActive: true}); sendWeeklyPrompt swallows the
\* mailer's failures
StartNewWeek_Prompt(p) ==
    /\ pc[p] = "start_users"
    /\ promptsSent' = IF ActiveUsers = {} THEN promptsSent ELSE promptsSent + 1
    /\ Return(p, loc[p], "success")
    /\ UNCHANGED <<cronFired, history, config, now, weeks, submissions, users, streaks, invites,
                   eligNotified>>

(***************************************************************************)
(* The streak rules of the two services.                                   *)
(***************************************************************************)
\* a check that knows the next number only
NextNumberOnly(lastWeek, currentWeek) == currentWeek = lastWeek + 1

\* WeeklyAutomation.isConsecutiveWeek; 0 stands for null (!lastWeek)
IsConsecutiveWeek(lastWeek, currentWeek) ==
    LET lastYear == lastWeek \div 100
        lastWeekNum == lastWeek % 100
        currentYear == currentWeek \div 100
        currentWeekNum == currentWeek % 100
    IN  IF lastWeek = 0 THEN FALSE
        ELSE IF lastYear = currentYear THEN currentWeekNum = lastWeekNum + 1
        ELSE IF currentYear = lastYear + 1
             THEN lastWeekNum >= 52 /\ currentWeekNum = 1
        ELSE FALSE

\* EmailProcessor.isConsecutiveWeek
IsConsecutiveWeekOnSubmit(lastWeek, currentWeek) ==
    IF lastWeek = 0 THEN FALSE ELSE currentWeek = lastWeek + 1

Max(a, b) == IF a >= b THEN a ELSE b

\* a longest streak that is written back as it was read
LongestStreakKept(longest, newCurrent) == longest

\* Math.max(user.streak.longestStreak, newCurrentStreak)
NewLongestStreak(longest, newCurrent) == Max(longest, newCurrent)

\* WeeklyAutomation.updateUserStreak: the row it creates
CreatedStreakOnClose(weekNumber, didSubmit) ==
    [exists |-> TRUE,
     currentStreak |-> IF didSubmit THEN 1 ELSE 0,
     longestStreak |-> IF didSubmit THEN 1 ELSE 0,
     lastSubmissionWeek |-> IF didSubmit THEN weekNumber ELSE 0,
     canInvite |-> FALSE]

\* WeeklyAutomation.updateUserStreak: the row it writes over user.streak,
\* the streak it read with the user
UpdatedStreakOnClose(streak, inviteCount, weekNumber, didSubmit) ==
    LET newCurrentStreak ==
            IF didSubmit
            THEN IF IsConsecutiveWeek(streak.lastSubmissionWeek, weekNumber)
                 THEN streak.currentStreak + 1 ELSE 1
            ELSE 0
    IN  [exists |-> TRUE,
         currentStreak |-> newCurrentStreak,
         longestStreak |-> NewLongestStreak(streak.longestStreak, newCurrentStreak),
         lastSubmissionWeek |-> IF didSubmit THEN weekNumber
                                ELSE streak.lastSubmissionWeek,
         canInvite |-> newCurrentStreak >= config.streakRequired
                       /\ inviteCount < config.maxInvitesPerUser]

\* EmailProcessor.updateUserStreak: the row it creates
CreatedStreakOnSubmit(weekNumber) ==
    [exists |-> TRUE, currentStreak |-> 1, longestStreak |-> 1,
     lastSubmissionWeek |-> weekNumber, canInvite |-> FALSE]

\* EmailProcessor.updateUserStreak: the row it writes over the one it read
UpdatedStreakOnSubmit(streak, weekNumber) ==
    LET newCurrentStreak ==
            IF IsConsecutiveWeekOnSubmit(streak.lastSubmissionWeek, weekNumber)
            THEN streak.currentStreak + 1 ELSE 1
    IN  [exists |-> TRUE,
         currentStreak |-> newCurrentStreak,
         longestStreak |-> NewLongestStreak(streak.longestStreak, newCurrentStreak),
         lastSubmissionWeek |-> weekNumber,
         canInvite |-> newCurrentStreak >= config.streakRequired]

\* both services notify when canInvite && !streak.canInvite
NewlyEligible(old, new) == new.canInvite /\ ~old.canInvite

(***************************************************************************)
(* WeeklyAutomation.closeWeekAndCompile, from the Sunday cron job and from *)
(* manualCompileWeek without a week id (POST /admin/weeks/:id/compile      *)
(* with an id that parseInt turns into NaN or 0).                          *)
(***************************************************************************)
\* prisma.week.findFirst({status: 'open'}, include submissions): no order is
\* given, so with several open weeks the store may return any of them
CloseWeek_Find(p) ==
    /\ pc[p] = "idle"
    /\ CronDue(p, "closeWeekAndCompile", Sunday)
    /\ LET l == Enter("closeWeekAndCompile")
       IN  IF OpenWeeks = {}
           THEN Return(p, l, "No open week")
           ELSE \E w \in OpenWeeks :
                    Goto(p, "close_close",
                         [l EXCEPT !.week = w,
                                   !.weekNumber = weeks[w].weekNumber,
                                   !.subs = SubmittedIn(w),
                                   !.callStreaks = streaks,
                                   !.callNotified = eligNotified])
    /\ UNCHANGED <<history, config, now, weeks, submissions, users, streaks, invites,
                   promptsSent, eligNotified>>

\* prisma.week.update(status: 'closed')
CloseWeek_Close(p) ==
    /\ pc[p] = "close_close"
    /\ weeks' = [weeks EXCEPT ![loc[p].week].status = "closed"]
    /\ Goto(p, IF loc[p].subs = {} THEN "close_empty" ELSE "close_send", loc[p])
    /\ UNCHANGED <<cronFired, history, config, now, submissions, users, streaks, invites,
                   promptsSent, eligNotified>>

\* no submissions: prisma.week.update(status: 'compiled') and return
CloseWeek_CompileEmpty(p) ==
    /\ pc[p] = "close_empty"
    /\ weeks' = [weeks EXCEPT ![loc[p].week].status = "compiled"]
    /\ Return(p, loc[p], "success")
    /\ history' = Closed(history, loc[p].week)
    /\ UNCHANGED <<cronFired, config, now, submissions, users, streaks, invites,
                   promptsSent, eligNotified>>

\* sendWeeklyCompilation rethrows the mailer's failure, which ends the
\* handler; otherwise prisma.week.update(status: 'compiled')
CloseWeek_SendAndCompile(p) ==
    /\ pc[p] = "close_send"
    /\ \E mailOk \in BOOLEAN :
          IF mailOk
          THEN /\ weeks' = [weeks EXCEPT ![loc[p].week].status = "compiled"]
               /\ Goto(p, "close_users", loc[p])
          ELSE /\ Return(p, loc[p], "threw")
               /\ UNCHANGED weeks
    /\ UNCHANGED <<cronFired, history, config, now, submissions, users, streaks, invites,
                   promptsSent, eligNotified>>

\* updateAllUserStreaks: prisma.user.findMany({isActive: true}, include streak)
CloseWeek_FindUsers(p) ==
    /\ pc[p] = "close_users"
    /\ LET todo == SelectSeq(UserOrder, LAMBDA e : e \in ActiveUsers)
       IN  IF todo = <<>>
           THEN /\ Return(p, loc[p], "success")
                /\ history' = Closed(history, loc[p].week)
           ELSE /\ Goto(p, "close_streak",
                        [loc[p] EXCEPT !.todo = todo, !.snapUsers = users,
                                       !.snapStreaks = streaks])
                /\ UNCHANGED history
    /\ UNCHANGED <<cronFired, config, now, weeks, submissions, users, streaks, invites,
                   promptsSent, eligNotified>>

\* updateUserStreak(user, weekNumber, didSubmit) for the next user of the
\* list: userStreak.create when the user was read without a streak (the
\* unique userId refuses a second row; the error is caught and logged),
\* else userStreak.update and the eligibility notification
CloseWeek_UpdateStreak(p) ==
    /\ pc[p] = "close_streak"
    /\ LET u == Head(loc[p].todo)
           old == loc[p].snapStreaks[u]
           didSubmit == u \in loc[p].subs
           new == IF old.exists
                  THEN UpdatedStreakOnClose(old, loc[p].snapUsers[u].inviteCount,
                                            loc[p].weekNumber, didSubmit)
                  ELSE CreatedStreakOnClose(loc[p].weekNumber, didSubmit)
           rest == Tail(loc[p].todo)
           applied == old.exists \/ ~streaks[u].exists
           written == IF applied THEN StreakWritten(history, u, loc[p].week)
                      ELSE history
       IN  /\ IF old.exists
              THEN /\ streaks' = [streaks EXCEPT ![u] = new]
                   /\ eligNotified' =
                        IF NewlyEligible(old, new)
                        THEN [eligNotified EXCEPT ![u] = @ + 1]
                        ELSE eligNotified
              ELSE /\ streaks' = IF streaks[u].exists THEN streaks
                                 ELSE [streaks EXCEPT ![u] = new]
                   /\ UNCHANGED eligNotified
           /\ IF rest = <<>>
              THEN /\ Return(p, loc[p], "success")
                   /\ history' = Closed(written, loc[p].week)
              ELSE /\ Goto(p, "close_streak", [loc[p] EXCEPT !.todo = rest])
                   /\ history' = written
    /\ UNCHANGED <<cronFired, config, now, weeks, submissions, users, invites, promptsSent>>

(***************************************************************************)
(* WeeklyAutomation.manualCompileWeek(weekId), POST /admin/weeks/:id/compile*)
(***************************************************************************)
\* prisma.week.findUnique({id}); the compilation is mailed when the week has
\* submissions, and the mailer's failure is thrown to the route
ManualCompile_Find(p) ==
    /\ pc[p] = "idle"
    /\ \E weekId \in 1..(Len(weeks) + 1) :
         LET l == [Enter("manualCompileWeek") EXCEPT !.week = weekId]
         IN  IF weekId \notin DOMAIN weeks
             THEN Return(p, l, "Week not found")
             ELSE IF weeks[weekId].status = "compiled"
             THEN Return(p, l, "Week already compiled")
             ELSE IF SubmittedIn(weekId) = {}
             THEN Goto(p, "manual_compile", l)
             ELSE \E mailOk \in BOOLEAN :
                     IF mailOk THEN Goto(p, "manual_compile", l)
                     ELSE Return(p, l, "threw")
    /\ UNCHANGED <<cronFired, history, config, now, weeks, submissions, users, streaks, invites,
                   promptsSent, eligNotified>>

\* prisma.week.update(status: 'compiled')
ManualCompile_Compile(p) ==
    /\ pc[p] = "manual_compile"
    /\ weeks' = [weeks EXCEPT ![loc[p].week].status = "compiled"]
    /\ Return(p, loc[p], "success")
    /\ UNCHANGED <<cronFired, history, config, now, submissions, users, streaks, invites,
                   promptsSent, eligNotified>>

(***************************************************************************)
(* PATCH /admin/users/:id with isActive, and DELETE /admin/users/:id.      *)
(***************************************************************************)
SetUserActive(p) ==
    /\ pc[p] = "idle"
    /\ \E e \in Emails, active \in BOOLEAN :
          /\ users[e].exists
          /\ users[e].isActive # active
          /\ users' = [users EXCEPT ![e].isActive = active]
    /\ UNCHANGED <<cronFired, history, config, now, weeks, submissions, streaks, invites, pc, loc,
                   last, promptsSent, eligNotified>>

(***************************************************************************)
(* EmailProcessor.processInboundEmail, from POST /webhook/inbound-email.   *)
(***************************************************************************)
\* the open week the submission goes to: findFirst({status: 'open'},
\* orderBy createdAt desc), the newest open week
CurrentWeek == CHOOSE w \in OpenWeeks : \A v \in OpenWeeks : v <= w

\* a check that asks for a row only
UnknownSender(e) == ~users[e].exists

\* !user || !user.isActive
UnknownOrInactive(e) == ~users[e].exists \/ ~users[e].isActive

\* prisma.user.findUnique({email: senderEmail})
Submit_FindUser(p) ==
    /\ pc[p] = "idle"
    /\ \E e \in Emails :
         LET l == [Enter("processInboundEmail") EXCEPT !.user = e]
         IN  IF UnknownOrInactive(e)
             THEN Return(p, l, "Unknown user")
             ELSE Goto(p, "submit_week", l)
    /\ UNCHANGED <<cronFired, history, config, now, weeks, submissions, users, streaks, invites,
                   promptsSent, eligNotified>>

\* a lookup that takes the newest week whatever its status
NewestWeek == Len(weeks)

\* what the lookup of the open week returns: the week's id, or 0 for null
ActiveWeek == IF OpenWeeks = {} THEN 0 ELSE CurrentWeek

\* prisma.week.findFirst({status: 'open'})
Submit_FindWeek(p) ==
    /\ pc[p] = "submit_week"
    /\ IF ActiveWeek = 0
       THEN Return(p, loc[p], "No active week")
       ELSE Goto(p, "submit_existing",
                 [loc[p] EXCEPT !.week = ActiveWeek,
                                !.weekNumber = weeks[ActiveWeek].weekNumber])
    /\ UNCHANGED <<cronFired, history, config, now, weeks, submissions, users, streaks, invites,
                   promptsSent, eligNotified>>

\* prisma.submission.findUnique({userId_weekId}); then the body is parsed
\* and validated
Submit_FindExisting(p) ==
    /\ pc[p] = "submit_existing"
    /\ IF HasSubmission(submissions, loc[p].user, loc[p].week)
       THEN Return(p, loc[p], "Already submitted")
       ELSE \E valid \in BOOLEAN :
               IF valid THEN Goto(p, "submit_create", loc[p])
               ELSE Return(p, loc[p], "Invalid format")
    /\ UNCHANGED <<cronFired, history, config, now, weeks, submissions, users, streaks, invites,
                   promptsSent, eligNotified>>

\* a store that takes a second row for the same user and week
UserWeekNeverTaken(e, w) == FALSE

\* the unique key userId_weekId of the table: is the pair taken
UserWeekTaken(e, w) == HasSubmission(submissions, e, w)

\* prisma.submission.create; the unique (userId, weekId) refuses a second
\* row, and the outer catch turns the error into 'Processing failed'
Submit_Create(p) ==
    /\ pc[p] = "submit_create"
    /\ IF UserWeekTaken(loc[p].user, loc[p].week)
       THEN /\ Return(p, loc[p], "Processing failed")
            /\ UNCHANGED submissions
       ELSE /\ submissions' = submissions (+) SetToBag({<<loc[p].user, loc[p].week>>})
            /\ Goto(p, "submit_streak", loc[p])
    /\ UNCHANGED <<cronFired, history, config, now, weeks, users, streaks, invites,
                   promptsSent, eligNotified>>

\* updateUserStreak: prisma.userStreak.findUnique({userId})
Submit_FindStreak(p) ==
    /\ pc[p] = "submit_streak"
    /\ Goto(p, "submit_update",
            [loc[p] EXCEPT !.snapStreaks = [@ EXCEPT ![loc[p].user] =
                                                  streaks[loc[p].user]]])
    /\ UNCHANGED <<cronFired, history, config, now, weeks, submissions, users, streaks, invites,
                   promptsSent, eligNotified>>

\* updateUserStreak: userStreak.create or userStreak.update with the
\* eligibility notification (errors are caught and logged); then
\* sendSubmissionConfirmation, whose failure the outer catch turns into
\* 'Processing failed'
Submit_UpdateStreak(p) ==
    /\ pc[p] = "submit_update"
    /\ LET u == loc[p].user
           old == loc[p].snapStreaks[u]
           new == IF old.exists THEN UpdatedStreakOnSubmit(old, loc[p].weekNumber)
                  ELSE CreatedStreakOnSubmit(loc[p].weekNumber)
       IN  IF old.exists
           THEN /\ streaks' = [streaks EXCEPT ![u] = new]
                /\ eligNotified' = IF NewlyEligible(old, new)
                                   THEN [eligNotified EXCEPT ![u] = @ + 1]
                                   ELSE eligNotified
           ELSE /\ streaks' = IF streaks[u].exists THEN streaks
                              ELSE [streaks EXCEPT ![u] = new]
                /\ UNCHANGED eligNotified
    /\ history' = IF loc[p].snapStreaks[loc[p].user].exists
                     \/ ~streaks[loc[p].user].exists
                  THEN StreakWritten(history, loc[p].user, loc[p].week)
                  ELSE history
    /\ \E mailOk \in BOOLEAN :
          Return(p, loc[p], IF mailOk THEN "success" ELSE "Processing failed")
    /\ UNCHANGED <<cronFired, config, now, weeks, submissions, users, invites, promptsSent>>

(***************************************************************************)
(* InvitationService.checkAllUsersEligibility, the daily cron job.         *)
(***************************************************************************)
\* the invitations that count for a user: sentInvites with status pending
\* or accepted
SentInvites(e) ==
    Cardinality({i \in DOMAIN invites :
                    /\ invites[i].inviterId = e
                    /\ invites[i].status \in {"pending", "accepted"}})

\* a check that looks at the streak only
EligibleByStreakOnly(streak, sent) ==
    streak.currentStreak >= config.streakRequired

\* shouldBeEligible of a user as read
ShouldBeEligible(streak, sent) ==
    streak.currentStreak >= config.streakRequired
    /\ sent < config.maxInvitesPerUser

\* prisma.user.findMany({isActive: true}, include streak, sentInvites); the
\* loop awaits only for the users whose flag differs
Sweep_FindUsers(p) ==
    /\ pc[p] = "idle"
    /\ LET l == Enter("checkAllUsersEligibility")
           drifted(e) == /\ e \in ActiveUsers
                         /\ streaks[e].exists
                         /\ ShouldBeEligible(streaks[e], SentInvites(e))
                               # streaks[e].canInvite
           todo == SelectSeq(UserOrder, drifted)
       IN  IF todo = <<>>
           THEN Return(p, l, "success")
           ELSE Goto(p, "sweep_update",
                     [l EXCEPT !.todo = todo, !.snapStreaks = streaks,
                               !.snapSent = [e \in Emails |-> SentInvites(e)]])
    /\ UNCHANGED <<cronFired, history, config, now, weeks, submissions, users, streaks, invites,
                   promptsSent, eligNotified>>

\* prisma.userStreak.update({canInvite: shouldBeEligible}) and the
\* notification for the next user whose flag differed
Sweep_Update(p) ==
    /\ pc[p] = "sweep_update"
    /\ LET u == Head(loc[p].todo)
           old == loc[p].snapStreaks[u]
           should == ShouldBeEligible(old, loc[p].snapSent[u])
           rest == Tail(loc[p].todo)
       IN  /\ streaks' = [streaks EXCEPT ![u].canInvite = should]
           /\ eligNotified' = IF should /\ ~old.canInvite
                              THEN [eligNotified EXCEPT ![u] = @ + 1]
                              ELSE eligNotified
           /\ history' = IF should /\ ~old.canInvite
                         THEN [history EXCEPT !.sweepGrants[u] = @ + 1]
                         ELSE history
           /\ IF rest = <<>>
              THEN Return(p, loc[p], "success")
              ELSE Goto(p, "sweep_update", [loc[p] EXCEPT !.todo = rest])
    /\ UNCHANGED <<cronFired, config, now, weeks, submissions, users, invites, promptsSent>>

\* prisma.userStreak.update rejects (the store fails) for the next user
\* whose flag differed: the loop has no catch of its own, the catch of
\* checkAllUsersEligibility logs and rethrows, and the users after this
\* one are not reached
Sweep_UpdateFails(p) ==
    /\ pc[p] = "sweep_update"
    /\ Return(p, loc[p], "threw")
    /\ UNCHANGED <<cronFired, history, config, now, weeks, submissions, users, streaks,
                   invites, promptsSent, eligNotified>>

(***************************************************************************)
(* InvitationService.sendInvitation, from POST /api/invite/send and from   *)
(* an INVITE: command in an inbound email.                                 *)
(***************************************************************************)
\* a check that asks for an active user only
EligibleIfActive(e) ==
    IF ~users[e].exists \/ ~users[e].isActive THEN "User not found or inactive"
    ELSE "eligible"

\* checkInviteEligibility(userId): the reason it refuses with, or "eligible"
CheckInviteEligibility(e) ==
    IF ~users[e].exists \/ ~users[e].isActive THEN "User not found or inactive"
    ELSE IF ~streaks[e].exists THEN "No submission history"
    ELSE IF streaks[e].currentStreak < config.streakRequired
         THEN "Requires consecutive weeks"
    ELSE IF SentInvites(e) >= config.maxInvitesPerUser THEN "Maximum invites reached"
    ELSE "eligible"

\* what checkInviteEligibility reports with eligible: true
InvitesUsed(e) == SentInvites(e)
InvitesRemaining(e) == config.maxInvitesPerUser - SentInvites(e)

\* the three tests of the expiry date against new Date():
\* sendInvitation's lookup, expiresAt: {gt: new Date()}
StillBlocksSending(i) == invites[i].expiresAt > now

\* processInviteAcceptance, new Date() > invite.expiresAt
ExpiredAtAcceptance(i) == now > invites[i].expiresAt

\* cleanupExpiredInvites, expiresAt: {lt: new Date()}
ExpiredAtCleanup(i) == invites[i].expiresAt < now

\* a lookup that finds no pending invitation
NoPendingInvite(email) == FALSE

\* is there a pending invitation for the address that has not expired:
\* findFirst({inviteeEmail, status: 'pending', expiresAt: {gt: new Date()}})
PendingInviteFor(email) ==
    \E i \in DOMAIN invites :
        /\ invites[i].inviteeEmail = email
        /\ invites[i].status = "pending"
        /\ StillBlocksSending(i)

SendInvitation_Check(p) ==
    /\ pc[p] = "idle"
    /\ \E inviter \in Emails, email \in Emails :
         LET l == [Enter("sendInvitation") EXCEPT !.user = inviter, !.email = email]
         IN  /\ users[inviter].exists
             /\ IF CheckInviteEligibility(inviter) # "eligible"
                THEN Return(p, l, CheckInviteEligibility(inviter))
                ELSE Goto(p, "invite_user", l)
    /\ UNCHANGED <<cronFired, history, config, now, weeks, submissions, users, streaks, invites,
                   promptsSent, eligNotified>>

\* prisma.user.findUnique({email: cleanEmail})
SendInvitation_FindUser(p) ==
    /\ pc[p] = "invite_user"
    /\ IF users[loc[p].email].exists
       THEN Return(p, loc[p], "User is already a member")
       ELSE Goto(p, "invite_pending", loc[p])
    /\ UNCHANGED <<cronFired, history, config, now, weeks, submissions, users, streaks, invites,
                   promptsSent, eligNotified>>

\* an invitation that expires the moment it is sent
ExpiresAtOnce(sentAt) == sentAt

\* moment().add(this.inviteExpiryDays, 'days')
ExpiryDate(sentAt) == sentAt + config.inviteExpiryDays

\* prisma.invite.findFirst(pending, unexpired); then the expiry date
SendInvitation_FindPending(p) ==
    /\ pc[p] = "invite_pending"
    /\ IF PendingInviteFor(loc[p].email)
       THEN Return(p, loc[p], "Pending invitation already exists")
       ELSE Goto(p, "invite_create",
                 [loc[p] EXCEPT !.expiresAt = ExpiryDate(now)])
    /\ UNCHANGED <<cronFired, history, config, now, weeks, submissions, users, streaks, invites,
                   promptsSent, eligNotified>>

\* prisma.invite.create (status defaults to pending)
SendInvitation_Create(p) ==
    /\ pc[p] = "invite_create"
    /\ Len(invites) < MaxInviteRows
    /\ invites' = Append(invites, [inviterId |-> loc[p].user,
                                   inviteeEmail |-> loc[p].email,
                                   status |-> "pending",
                                   expiresAt |-> loc[p].expiresAt])
    /\ Goto(p, "invite_send", [loc[p] EXCEPT !.invite = Len(invites) + 1])
    /\ UNCHANGED <<cronFired, history, config, now, weeks, submissions, users, streaks,
                   promptsSent, eligNotified>>

\* emailService.sendInvitation rethrows the mailer's failure; otherwise
\* prisma.user.update({inviteCount: {increment: 1}})
SendInvitation_SendAndCount(p) ==
    /\ pc[p] = "invite_send"
    /\ \E mailOk \in BOOLEAN :
          IF mailOk
          THEN /\ users' = [users EXCEPT ![loc[p].user].inviteCount = @ + 1]
               /\ history' = [history EXCEPT !.mailed = @ + 1]
               /\ Return(p, loc[p], "success")
          ELSE /\ Return(p, loc[p], "threw")
               /\ UNCHANGED <<users, history>>
    /\ UNCHANGED <<cronFired, config, now, weeks, submissions, streaks, invites,
                   promptsSent, eligNotified>>

(***************************************************************************)
(* InvitationService.processInviteAcceptance, GET /api/invite/accept/:token*)
(***************************************************************************)
\* prisma.invite.findUnique({inviteToken})
AcceptInvite_Find(p) ==
    /\ pc[p] = "idle"
    /\ \E token \in 1..(Len(invites) + 1) :
         LET l == [Enter("processInviteAcceptance") EXCEPT !.invite = token]
         IN  IF token \notin DOMAIN invites
             THEN Return(p, l, "Invalid invitation link")
             ELSE IF invites[token].status # "pending"
             THEN Return(p, l, "Invitation already processed")
             ELSE IF ExpiredAtAcceptance(token)
             THEN Goto(p, "accept_expire", l)
             ELSE Goto(p, "accept_user",
                       [l EXCEPT !.email = invites[token].inviteeEmail])
    /\ UNCHANGED <<cronFired, history, config, now, weeks, submissions, users, streaks, invites,
                   promptsSent, eligNotified>>

\* prisma.invite.update(status: 'expired')
AcceptInvite_Expire(p) ==
    /\ pc[p] = "accept_expire"
    /\ invites' = [invites EXCEPT ![loc[p].invite].status = "expired"]
    /\ Return(p, loc[p], "Invitation has expired")
    /\ UNCHANGED <<cronFired, history, config, now, weeks, submissions, users, streaks,
                   promptsSent, eligNotified>>

\* a store in which no address is ever found
EmailNeverTaken(email) == FALSE

\* a lookup that misses the member
EmailOverlooked(email) == FALSE

\* the unique email of the table User: is there a row for the address
EmailTaken(email) == users[email].exists

\* prisma.user.findUnique({email: invite.inviteeEmail})
AcceptInvite_FindUser(p) ==
    /\ pc[p] = "accept_user"
    /\ Goto(p, IF EmailTaken(loc[p].email) THEN "accept_mark" ELSE "accept_create",
            loc[p])
    /\ UNCHANGED <<cronFired, history, config, now, weeks, submissions, users, streaks, invites,
                   promptsSent, eligNotified>>

\* the invitee is a member already: prisma.invite.update(status: 'accepted')
AcceptInvite_Mark(p) ==
    /\ pc[p] = "accept_mark"
    /\ invites' = [invites EXCEPT ![loc[p].invite].status = "accepted"]
    /\ Return(p, loc[p], "User already exists")
    /\ UNCHANGED <<cronFired, history, config, now, weeks, submissions, users, streaks,
                   promptsSent, eligNotified>>

\* prisma.user.create (the email is unique; a violation is thrown)
AcceptInvite_CreateUser(p) ==
    /\ pc[p] = "accept_create"
    /\ IF EmailTaken(loc[p].email)
       THEN /\ Return(p, loc[p], "threw")
            /\ UNCHANGED <<users, history>>
       ELSE /\ users' = [users EXCEPT ![loc[p].email] =
                            [exists |-> TRUE, isActive |-> TRUE, inviteCount |-> 0]]
            /\ history' = [history EXCEPT !.created[loc[p].email] = @ + 1,
                                          !.createdBy[loc[p].email] = loc[p].invite]
            /\ Goto(p, "accept_streak", loc[p])
    /\ UNCHANGED <<cronFired, config, now, weeks, submissions, streaks, invites,
                   promptsSent, eligNotified>>

\* the row processInviteAcceptance creates for the new user
InitialStreak ==
    [exists |-> TRUE, currentStreak |-> 0, longestStreak |-> 0,
     lastSubmissionWeek |-> 0, canInvite |-> FALSE]

\* prisma.userStreak.create (the userId is unique; a violation is thrown)
AcceptInvite_CreateStreak(p) ==
    /\ pc[p] = "accept_streak"
    /\ IF streaks[loc[p].email].exists
       THEN /\ Return(p, loc[p], "threw")
            /\ UNCHANGED streaks
       ELSE /\ streaks' = [streaks EXCEPT ![loc[p].email] = InitialStreak]
            /\ Goto(p, "accept_status", loc[p])
    /\ UNCHANGED <<cronFired, history, config, now, weeks, submissions, users, invites,
                   promptsSent, eligNotified>>

\* prisma.invite.update(status: 'accepted')
AcceptInvite_Accept(p) ==
    /\ pc[p] = "accept_status"
    /\ invites' = [invites EXCEPT ![loc[p].invite].status = "accepted"]
    /\ history' = [history EXCEPT !.accepts[loc[p].invite] = @ + 1]
    /\ Return(p, loc[p], "success")
    /\ UNCHANGED <<cronFired, config, now, weeks, submissions, users, streaks,
                   promptsSent, eligNotified>>

(***************************************************************************)
(* InvitationService.cleanupExpiredInvites, POST /admin/cleanup.           *)
(***************************************************************************)
CleanupExpiredInvites(p) ==
    /\ pc[p] = "idle"
    /\ \E i \in DOMAIN invites :
          invites[i].status = "pending" /\ ExpiredAtCleanup(i)
    /\ invites' = [i \in DOMAIN invites |->
                     IF invites[i].status = "pending" /\ ExpiredAtCleanup(i)
                     THEN [invites[i] EXCEPT !.status = "expired"]
                     ELSE invites[i]]
    /\ UNCHANGED <<cronFired, history, config, now, weeks, submissions, users, streaks, pc, loc,
                   last, promptsSent, eligNotified>>

(***************************************************************************)
(* The caller takes the result in the continuation of the handler's return:*)
(* the route answers with it (res.json, res.status(400)), the cron job     *)
(* logs it.  Nothing else runs in between.                                 *)
(***************************************************************************)
Respond ==
    /\ last # NoLast
    /\ last' = NoLast
    /\ UNCHANGED <<cronFired, history, config, now, weeks, submissions, users,
                   streaks, invites, pc, loc, promptsSent, eligNotified>>

Answered == last = NoLast

(***************************************************************************)
(* The triggers and what each of them runs.                                *)
(***************************************************************************)
CloseStep(p) ==
    \/ /\ p \in {"cron", "admin"}
       /\ CloseWeek_Find(p)
    \/ CloseWeek_Close(p)
    \/ CloseWeek_CompileEmpty(p)
    \/ CloseWeek_SendAndCompile(p)
    \/ CloseWeek_FindUsers(p)
    \/ CloseWeek_UpdateStreak(p)

CycleStep(p) ==
    \/ /\ p \in {"cron", "admin"}
       /\ StartNewWeek_Find(p)
    \/ StartNewWeek_Create(p)
    \/ StartNewWeek_Prompt(p)
    \/ CloseStep(p)
    \/ /\ p = "admin"
       /\ ManualCompile_Find(p)
    \/ ManualCompile_Compile(p)

SubmitStep(p) ==
    \/ /\ p = "webhook"
       /\ Submit_FindUser(p)
    \/ Submit_FindWeek(p)
    \/ Submit_FindExisting(p)
    \/ Submit_Create(p)
    \/ Submit_FindStreak(p)
    \/ Submit_UpdateStreak(p)

SweepStep(p) ==
    \/ /\ p = "cron"
       /\ Sweep_FindUsers(p)
    \/ Sweep_Update(p)

InviteStep(p) ==
    \/ /\ p = "web"
       /\ SendInvitation_Check(p)
    \/ SendInvitation_FindUser(p)
    \/ SendInvitation_FindPending(p)
    \/ SendInvitation_Create(p)
    \/ SendInvitation_SendAndCount(p)
    \/ /\ p = "web"
       /\ AcceptInvite_Find(p)
    \/ AcceptInvite_Expire(p)
    \/ AcceptInvite_FindUser(p)
    \/ AcceptInvite_Mark(p)
    \/ AcceptInvite_CreateUser(p)
    \/ AcceptInvite_CreateStreak(p)
    \/ AcceptInvite_Accept(p)

AdminStep(p) ==
    /\ p = "admin"
    /\ \/ SetUserActive(p)
       \/ CleanupExpiredInvites(p)

\* a handler may start while fewer than MaxInFlight handlers are running
Room(p) ==
    pc[p] = "idle" => Cardinality({q \in Procs : pc[q] # "idle"}) < MaxInFlight

\* the cycle manager under all its triggers, with submissions coming in
Next ==
    \/ Respond /\ UNCHANGED calc
    \/ Answered /\ Tick /\ UNCHANGED calc
    \/ \E p \in Procs : Answered /\ Room(p) /\ CycleStep(p) /\ UNCHANGED calc
    \/ \E p \in Procs : Answered /\ Room(p) /\ SubmitStep(p) /\ UNCHANGED calc

Spec == Init /\ [][Next]_vars

(***************************************************************************)
(* One handler at a time: every handler runs to its return before the next *)
(* one starts.                                                             *)
(***************************************************************************)
Alone(p) == \A q \in Procs \ {p} : pc[q] = "idle"

\* two members, one of them without a streak row, under either deployment
SeqInit ==
    /\ \E cfg \in {DefaultConfig, SmallConfig} : InitWith(cfg, UsersWithDana)
    /\ calc = NoCalc

\* the weekly cycle with the submissions and the streaks

StreakNext ==
    \/ Respond /\ UNCHANGED calc
    \/ Answered /\ Tick /\ UNCHANGED calc
    \/ \E p \in Procs : Answered /\ Alone(p) /\ CycleStep(p) /\ UNCHANGED calc
    \/ \E p \in Procs : Answered /\ Alone(p) /\ SubmitStep(p) /\ UNCHANGED calc
    \/ \E p \in Procs : Answered /\ Alone(p) /\ p = "admin" /\ SetUserActive(p) /\ UNCHANGED calc

StreakSpec == SeqInit /\ [][StreakNext]_vars

\* everything that writes a streak row or the invitations it depends on,
\* around the week the seed has opened
EligibilityNext ==
    \/ Respond /\ UNCHANGED calc
    \/ Answered /\ Tick /\ UNCHANGED calc
    \/ \E p \in Procs : Answered /\ Alone(p) /\ CloseStep(p) /\ UNCHANGED calc
    \/ \E p \in Procs : Answered /\ Alone(p) /\ SubmitStep(p) /\ UNCHANGED calc
    \/ \E p \in Procs : Answered /\ Alone(p) /\ SweepStep(p) /\ UNCHANGED calc
    \/ \E p \in Procs : Answered /\ Alone(p) /\ InviteStep(p) /\ UNCHANGED calc
    \/ \E p \in Procs : Answered /\ Alone(p) /\ AdminStep(p) /\ UNCHANGED calc

EligibilitySpec == SeqInit /\ [][EligibilityNext]_vars

\* a second request that carries an email while the first one is being
\* processed: POST /webhook/inbound-email again, or POST /webhook/test-email
SecondDelivery(p) == p = "web" /\ Submit_FindUser(p)

\* inbound emails only, two requests at a time
DeliveryNext ==
    \/ Respond /\ UNCHANGED calc
    \/ \E p \in Procs : Answered /\ Room(p) /\ SubmitStep(p) /\ UNCHANGED calc
    \/ \E p \in Procs : Answered /\ Room(p) /\ SecondDelivery(p) /\ UNCHANGED calc

DeliverySpec == SeqInit /\ [][DeliveryNext]_vars

\* an INVITE: command in an inbound email: processInviteCommand looks the
\* sender up and calls sendInvitation
InviteCommand(p) == p = "webhook" /\ SendInvitation_Check(p)

\* a second click on an invitation link while the first is being processed
SecondClick(p) == p = "web2" /\ AcceptInvite_Find(p)

\* POST /admin/cleanup and POST /api/invite/cleanup
CleanupStep(p) == p = "admin" /\ CleanupExpiredInvites(p)

\* invitations sent from the route and by email, links clicked and the
\* clean-up, two requests at a time
InvitationNext ==
    \/ Respond /\ UNCHANGED calc
    \/ Answered /\ Tick /\ UNCHANGED calc
    \/ \E p \in Procs : Answered /\ Room(p) /\ InviteStep(p) /\ UNCHANGED calc
    \/ \E p \in Procs : Answered /\ Room(p) /\ InviteCommand(p) /\ UNCHANGED calc
    \/ \E p \in Procs : Answered /\ Room(p) /\ SecondClick(p) /\ UNCHANGED calc
    \/ \E p \in Procs : Answered /\ Room(p) /\ CleanupStep(p) /\ UNCHANGED calc

InvitationSpec == SeqInit /\ [][InvitationNext]_vars

\* invitations sent and links clicked while the emails of the members, the
\* new ones among them, come in
AcceptanceNext ==
    \/ Respond /\ UNCHANGED calc
    \/ \E p \in Procs : Answered /\ Room(p) /\ InviteStep(p) /\ UNCHANGED calc
    \/ \E p \in Procs : Answered /\ Room(p) /\ SubmitStep(p) /\ UNCHANGED calc

AcceptanceSpec == SeqInit /\ [][AcceptanceNext]_vars

\* every operation that hands a message to the mailer, one handler at a
\* time, on the seeded store
SendStep(p) ==
    \/ /\ p = "web"
       /\ SendInvitation_Check(p)
    \/ SendInvitation_FindUser(p)
    \/ SendInvitation_FindPending(p)
    \/ SendInvitation_Create(p)
    \/ SendInvitation_SendAndCount(p)

NotifyNext ==
    \/ Respond /\ UNCHANGED calc
    \/ \E p \in Procs : Answered /\ Alone(p) /\ CycleStep(p) /\ UNCHANGED calc
    \/ \E p \in Procs : Answered /\ Alone(p) /\ SubmitStep(p) /\ UNCHANGED calc
    \/ \E p \in Procs : Answered /\ Alone(p) /\ SendStep(p) /\ UNCHANGED calc

NotifySpec == Init /\ [][NotifyNext]_vars

\* the close while emails with submissions come in and invitations are
\* sent, two requests at a time
ReconcileNext ==
    \/ Respond /\ UNCHANGED calc
    \/ \E p \in Procs : Answered /\ Room(p) /\ CloseStep(p) /\ UNCHANGED calc
    \/ \E p \in Procs : Answered /\ Room(p) /\ SubmitStep(p) /\ UNCHANGED calc
    \/ \E p \in Procs : Answered /\ Room(p) /\ SendStep(p) /\ UNCHANGED calc

ReconcileSpec == SeqInit /\ [][ReconcileNext]_vars

\* has any handler started and not returned
Busy == \E p \in Procs : pc[p] # "idle"

\* the weekly cycle and the emails of the members, each handler within one
\* instant of the clock
DeadlineNext ==
    \/ Respond /\ UNCHANGED calc
    \/ Answered /\ ~Busy /\ Tick /\ UNCHANGED calc
    \/ \E p \in Procs : Answered /\ Alone(p) /\ CycleStep(p) /\ UNCHANGED calc
    \/ \E p \in Procs : Answered /\ Alone(p) /\ SubmitStep(p) /\ UNCHANGED calc

DeadlineSpec == SeqInit /\ [][DeadlineNext]_vars

\* the daily check over a store that may fail, between the emails of the
\* members, one handler at a time
SweepNext ==
    \/ Respond /\ UNCHANGED calc
    \/ \E p \in Procs : Answered /\ Alone(p) /\ SubmitStep(p) /\ UNCHANGED calc
    \/ \E p \in Procs : Answered /\ Alone(p) /\ SweepStep(p) /\ UNCHANGED calc
    \/ \E p \in Procs : Answered /\ Alone(p) /\ Sweep_UpdateFails(p) /\ UNCHANGED calc
    \/ \E p \in Procs : Answered /\ Alone(p) /\ SendStep(p) /\ UNCHANGED calc

SweepSpec ==
    /\ \E cfg \in {SmallConfig, TightConfig} : InitWith(cfg, UsersWithDana)
    /\ calc = NoCalc
    /\ [][SweepNext]_vars

(***************************************************************************)
(* The schedule: node-cron fires each weekly job at its time, whatever the *)
(* earlier runs did, and every handler that has started runs on.           *)
(***************************************************************************)
MaxScheduleWeeks == 2

\* the weekly jobs due at this instant have fired
CronsFired ==
    /\ Weekday(now) = Thursday => "startNewWeek" \in cronFired
    /\ Weekday(now) = Sunday => "closeWeekAndCompile" \in cronFired

\* the clock moves on once the jobs due now have fired
ScheduledTick ==
    /\ CronsFired
    /\ now < FirstInstant + 7 * MaxScheduleWeeks
    /\ now' = IF Weekday(now) = Thursday THEN now + 3 ELSE now + 4
    /\ cronFired' = {}
    /\ UNCHANGED <<history, config, weeks, submissions, users, streaks, invites, pc, loc,
                   last, promptsSent, eligNotified>>

\* the two weekly jobs of initializeCronJobs
CronStep == Answered /\ Alone("cron") /\ CycleStep("cron") /\ UNCHANGED calc

\* the compilation mail goes out and the week is marked compiled
CompilationSent ==
    \E p \in Procs : /\ Answered
                     /\ CloseWeek_SendAndCompile(p)
                     /\ pc'[p] = "close_users"
                     /\ UNCHANGED calc

\* a handler that has started goes on to its next store access
HandlerRuns ==
    \E p \in Procs : /\ Answered
                     /\ pc[p] # "idle"
                     /\ (CycleStep(p) \/ SubmitStep(p))
                     /\ UNCHANGED calc

ScheduleNext ==
    \/ Respond /\ UNCHANGED calc
    \/ Answered /\ ScheduledTick /\ UNCHANGED calc
    \/ CronStep
    \/ \E p \in Procs : Answered /\ Alone(p) /\ SubmitStep(p) /\ UNCHANGED calc

ScheduleSpec ==
    /\ Init
    /\ [][ScheduleNext]_vars
    /\ WF_vars(Respond /\ UNCHANGED calc)
    /\ WF_vars(Answered /\ ScheduledTick /\ UNCHANGED calc)
    /\ WF_vars(CronStep)
    /\ WF_vars(HandlerRuns)
    /\ SF_vars(CompilationSent)

(***************************************************************************)
(* The calendar functions on their own: the week number startNewWeek       *)
(* computes at an instant, and isConsecutiveWeek of two week numbers.      *)
(***************************************************************************)
CalendarDays == FirstInstant..(FirstInstant + MaxCalendarDays)
CalendarYears == 2024..(2024 + MaxCalendarYears)

\* week numbers of the form YYYYWW with WW up to 53, and 0 for null
CalendarWeekNumbers == {0} \cup {y * 100 + w : y \in CalendarYears, w \in 1..53}

\* the questions: two instants for the week number, two week numbers for
\* isConsecutiveWeek
WeekNumberQuestions ==
    {[op |-> "askWeekNumber", args |-> <<t1, t2>>, result |-> <<>>] :
        t1 \in CalendarDays, t2 \in CalendarDays}

ConsecutiveQuestions ==
    {[op |-> "askConsecutive", args |-> <<a, b>>, result |-> <<>>] :
        a \in CalendarWeekNumbers, b \in CalendarWeekNumbers}

\* the last submission week of a streak and the week of a new submission,
\* put to the rule of either service
ContinuityQuestions ==
    {[op |-> "askContinuity", args |-> <<a, b>>, result |-> <<>>] :
        a \in CalendarWeekNumbers, b \in CalendarWeekNumbers}

\* the store as seeded, and a question put to one of the functions
CalendarInit ==
    /\ InitWith(DefaultConfig, SeedUsers)
    /\ weeks = SeedWeeks
    /\ calc \in WeekNumberQuestions \cup ConsecutiveQuestions
                 \cup ContinuityQuestions

\* weekNumber = parseInt(now.format('YYYY')) * 100 + now.week(), at each
\* of the two instants
ComputeWeekNumbers ==
    /\ calc.op = "askWeekNumber"
    /\ calc' = [calc EXCEPT !.op = "weekNumber",
                            !.result = <<WeekNumber(calc.args[1]),
                                         WeekNumber(calc.args[2])>>]
    /\ UNCHANGED <<config, now, weeks, submissions, users, streaks, invites, pc,
                   loc, last, promptsSent, eligNotified, cronFired, history>>

\* isConsecutiveWeek(lastWeek, currentWeek)
ComputeConsecutive ==
    /\ calc.op = "askConsecutive"
    /\ calc' = [calc EXCEPT !.op = "isConsecutiveWeek",
                            !.result = <<IsConsecutiveWeek(calc.args[1],
                                                           calc.args[2])>>]
    /\ UNCHANGED <<config, now, weeks, submissions, users, streaks, invites, pc,
                   loc, last, promptsSent, eligNotified, cronFired, history>>

\* whether the streak continues: WeeklyAutomation.isConsecutiveWeek at the
\* close and EmailProcessor.isConsecutiveWeek at the submission
ComputeContinuity ==
    /\ calc.op = "askContinuity"
    /\ calc' = [calc EXCEPT !.op = "continuity",
                            !.result = <<IsConsecutiveWeek(calc.args[1],
                                                           calc.args[2]),
                                         IsConsecutiveWeekOnSubmit(calc.args[1],
                                                                   calc.args[2])>>]
    /\ UNCHANGED <<config, now, weeks, submissions, users, streaks, invites, pc,
                   loc, last, promptsSent, eligNotified, cronFired, history>>

CalendarNext ==
    \/ ComputeWeekNumbers
    \/ ComputeConsecutive
    \/ ComputeContinuity

CalendarSpec == CalendarInit /\ [][CalendarNext]_vars

(***************************************************************************)
(* The weekly cycle.                                                       *)
(***************************************************************************)
\* C1: in every reachable state at most one week has status open, under
\* every interleaving of startNewWeek from the cron job and from the admin
\* route with closeWeekAndCompile and manualCompileWeek.
AtMostOneOpenWeek == Cardinality(OpenWeeks) <= 1

\* C2: every startNewWeek call that finds no open week returns success, and
\* exactly one week is open when it returns, whatever closed or compiled
\* weeks the table holds.
StartNewWeekSucceeds ==
    [][\A p \in Procs :
          (pc[p] \in {"start_create", "start_users"} /\ pc'[p] = "idle")
          => /\ last'.result = "success"
             /\ Cardinality({w \in DOMAIN weeks' : weeks'[w].status = "open"}) = 1
      ]_vars

\* C3: a startNewWeek call that starts while a week is open returns the
\* failure 'Week already open' as a value, and its step changes nothing in
\* the store: no week row is added or touched, no prompt is handed to the
\* mailer.
ConflictLeavesStoreUnchanged ==
    [][\A p \in Procs :
          (StartNewWeek_Find(p) /\ OpenWeeks # {})
          => /\ pc'[p] = "idle"
             /\ last' = [op |-> "startNewWeek", result |-> "Week already open"]
             /\ weeks' = weeks
             /\ promptsSent' = promptsSent
             /\ UNCHANGED <<submissions, users, streaks, invites, eligNotified>>
      ]_vars

\* C3, its case: startNewWeek has returned the conflict while a week is open
ConflictReturned ==
    /\ last = [op |-> "startNewWeek", result |-> "Week already open"]
    /\ OpenWeeks # {}

StatusRank(status) ==
    IF status = "open" THEN 0 ELSE IF status = "closed" THEN 1 ELSE 2

\* C4: no step takes a week's status backwards along open -> closed ->
\* compiled, also when closeWeekAndCompile and manualCompileWeek interleave
\* on the same week.
StatusMovesForward ==
    [][\A w \in DOMAIN weeks :
          StatusRank(weeks'[w].status) >= StatusRank(weeks[w].status)]_vars

\* C5: every closeWeekAndCompile call that found an open week and returns
\* success leaves that week compiled, with or without submissions.
CloseLeavesCompiled ==
    [][\A p \in Procs :
          (/\ loc[p].op = "closeWeekAndCompile"
           /\ pc[p] # "idle" /\ pc'[p] = "idle"
           /\ last'.result = "success")
          => weeks'[loc[p].week].status = "compiled"]_vars

(***************************************************************************)
(* The streaks.                                                            *)
(***************************************************************************)
\* the step with which handler p returns success from closeWeekAndCompile
CloseReturns(p) ==
    /\ loc[p].op = "closeWeekAndCompile"
    /\ pc[p] # "idle" /\ pc'[p] = "idle"
    /\ last'.result = "success"

\* C6: when closeWeekAndCompile returns success for a week, with or without
\* submissions, every active member without a submission in that week has
\* a streak row with currentStreak 0, and longestStreak and
\* lastSubmissionWeek as they were when the call started (0 and null for a
\* row the call had to create).
MissedWeekResetsStreak ==
    [][\A p \in Procs :
          CloseReturns(p)
          => \A e \in ActiveUsers :
                ~HasSubmission(submissions, e, loc[p].week)
                => /\ streaks'[e].exists
                   /\ streaks'[e].currentStreak = 0
                   /\ streaks'[e].longestStreak =
                         loc[p].callStreaks[e].longestStreak
                   /\ streaks'[e].lastSubmissionWeek =
                         loc[p].callStreaks[e].lastSubmissionWeek
      ]_vars

\* areAdjacent: b is the week that follows a
AreAdjacent(a, b) ==
    \/ a \div 100 = b \div 100 /\ b = a + 1
    \/ b \div 100 = a \div 100 + 1 /\ a % 100 >= 52 /\ b % 100 = 1

\* the number of successively adjacent weeks, ending with week w, in each of
\* which member e has a submission and which closeWeekAndCompile has closed
RECURSIVE AdjacentRun(_, _, _, _, _)
AdjacentRun(e, w, weekRows, subs, closes) ==
    IF w \notin closes \/ ~HasSubmission(subs, e, w) THEN 0
    ELSE LET before == {v \in DOMAIN weekRows :
                           AreAdjacent(weekRows[v].weekNumber, weekRows[w].weekNumber)}
         IN  IF before = {} THEN 1
             ELSE 1 + AdjacentRun(e, CHOOSE v \in before : TRUE, weekRows, subs, closes)

\* C7: a member whose whole history the store holds (no streak row in the
\* seed), whose submissions all lie in weeks closed by closeWeekAndCompile,
\* and who has submitted in N successively adjacent weeks up to the one
\* being closed, has currentStreak N when that close returns; when N is the
\* threshold and the member's invitations are below the cap, the flag is
\* set and one eligibility notification has gone to the member.
StreakCountsAdjacentWeeks ==
    [][\A p \in Procs :
          CloseReturns(p)
          => \A e \in Emails :
                LET n == AdjacentRun(e, loc[p].week, weeks', submissions',
                                     history'.closes)
                IN  (/\ ~SeedStreaks[e].exists
                     /\ \A w \in DOMAIN weeks' :
                           HasSubmission(submissions', e, w) => w \in history'.closes
                     /\ n >= 1)
                    => /\ streaks'[e].exists
                       /\ streaks'[e].currentStreak = n
                       /\ (n = config.streakRequired
                            /\ users'[e].inviteCount < config.maxInvitesPerUser)
                           => /\ streaks'[e].canInvite
                              /\ eligNotified'[e] = 1
      ]_vars

\* currentStreak, longestStreak and lastSubmissionWeek of a member (those of
\* a fresh row for a member without one)
StreakFields(rows, e) ==
    IF rows[e].exists
    THEN <<rows[e].currentStreak, rows[e].longestStreak, rows[e].lastSubmissionWeek>>
    ELSE <<0, 0, 0>>

\* C8: the streak update is applied once per member and week, by
\* closeWeekAndCompile only: when the close of a week returns, one update
\* has been applied for that week to every active member, and every step
\* that changes a member's currentStreak, longestStreak or
\* lastSubmissionWeek is a step of closeWeekAndCompile.
StreakUpdatedOnceByClose ==
    [][/\ \A p \in Procs :
            CloseReturns(p)
            => \A e \in ActiveUsers : history'.streakWrites[e, loc[p].week] = 1
       /\ \A e \in Emails :
            StreakFields(streaks', e) # StreakFields(streaks, e)
            => \E p \in Procs : /\ loc[p].op = "closeWeekAndCompile"
                                /\ pc'[p] # pc[p]
      ]_vars

\* C9: every streak row has currentStreak <= longestStreak, whichever of
\* processInboundEmail, closeWeekAndCompile, processInviteAcceptance and
\* checkAllUsersEligibility has written it.
CurrentWithinLongest ==
    \A e \in Emails :
        streaks[e].exists => streaks[e].currentStreak <= streaks[e].longestStreak

\* C9, its case: the invitee's row created on acceptance and counted up by a
\* submission, a row created for a member without one, and the seeded
\* member's streak reset by a close below its longest streak
StreakRowsWritten ==
    /\ streaks["emily"].exists /\ streaks["emily"].currentStreak = 1
    /\ streaks["dana"].exists
    /\ streaks["bob"].currentStreak = 0 /\ streaks["bob"].longestStreak = 5

\* canInvite as the rule gives it for member e in the given rows
EligibilityRule(streakRows, userRows, e) ==
    /\ streakRows[e].currentStreak >= config.streakRequired
    /\ userRows[e].inviteCount < config.maxInvitesPerUser

\* C10: every step that writes a member's streak row, and every return of
\* checkAllUsersEligibility, leaves canInvite equal to currentStreak >=
\* threshold and inviteCount < cap, on the member's rows at that moment.
FlagFollowsRule ==
    [][/\ \A e \in Emails :
            (streaks'[e] # streaks[e] /\ streaks'[e].exists)
            => streaks'[e].canInvite = EligibilityRule(streaks', users', e)
       /\ (last'.op = "checkAllUsersEligibility" /\ last # last')
            => \A e \in ActiveUsers :
                  streaks'[e].exists
                  => streaks'[e].canInvite = EligibilityRule(streaks', users', e)
      ]_vars

(***************************************************************************)
(* Submissions.                                                            *)
(***************************************************************************)
\* C11: in every reachable state the table holds at most one submission per
\* (user, week) pair, also when two deliveries of the same member interleave
\* between the findUnique pre-check and the create.
AtMostOneSubmission ==
    \A e \in Emails, w \in DOMAIN weeks : CopiesIn(<<e, w>>, submissions) <= 1

\* a delivery has lost the race at the unique key: it has failed while the
\* other one, which made the only row of the table, is still being processed
SecondInsertRefused ==
    /\ last = [op |-> "processInboundEmail", result |-> "Processing failed"]
    /\ BagCardinality(submissions) = 1
    /\ \E q \in Procs : pc[q] = "submit_streak"

\* C12: a processInboundEmail call that meets a submission of its member for
\* its week, at the pre-check or at the create, returns 'Already submitted',
\* and the table holds exactly one row for the pair afterwards.
DuplicateGetsDuplicateError ==
    [][\A p \in Procs :
          (/\ pc[p] \in {"submit_existing", "submit_create"}
           /\ HasSubmission(submissions, loc[p].user, loc[p].week)
           /\ pc'[p] = "idle")
          => /\ last'.result = "Already submitted"
             /\ CopiesIn(<<loc[p].user, loc[p].week>>, submissions') = 1]_vars

\* C13: a submission row is only created while its week has status open,
\* also when closeWeekAndCompile or manualCompileWeek runs between the lookup
\* of the open week and the create.
SubmissionOnlyWhileOpen ==
    [][\A e \in Emails, w \in DOMAIN weeks :
          CopiesIn(<<e, w>>, submissions') > CopiesIn(<<e, w>>, submissions)
          => weeks[w].status = "open"]_vars

\* C14: when the lookup of processInboundEmail finds no open week the call
\* returns 'No active week', and the step creates no submission and creates
\* or changes no streak row (nor any other row).
NoOpenWeekChangesNothing ==
    [][\A p \in Procs :
          (pc[p] = "submit_week" /\ OpenWeeks = {} /\ pc'[p] # pc[p])
          => /\ pc'[p] = "idle"
             /\ last' = [op |-> "processInboundEmail", result |-> "No active week"]
             /\ submissions' = submissions
             /\ streaks' = streaks
             /\ weeks' = weeks /\ users' = users /\ invites' = invites
             /\ eligNotified' = eligNotified]_vars

\* a delivery has been turned away because no week was open
NoActiveWeekReturned ==
    /\ last = [op |-> "processInboundEmail", result |-> "No active week"]
    /\ OpenWeeks = {}

(***************************************************************************)
(* The calendar.                                                           *)
(***************************************************************************)
\* the calendar week of a day: weeks start on Sunday, as the week numbers do
CalendarWeek(d) == d \div 7

\* C15: for any two instants t1 < t2 in different calendar weeks, the week
\* number startNewWeek computes at t1 is strictly less than the one it
\* computes at t2, also around the turn of the year.
WeekNumbersIncrease ==
    calc.op = "weekNumber"
    => LET t1 == calc.args[1]
           t2 == calc.args[2]
       IN  (t1 < t2 /\ CalendarWeek(t1) # CalendarWeek(t2))
           => calc.result[1] < calc.result[2]

\* the calendars: every year has 52 or 53 weeks
Calendars == [CalendarYears -> {52, 53}]

\* the week numbers a calendar has
ValidIn(cal, a) ==
    /\ a \div 100 \in CalendarYears
    /\ a % 100 \in 1..cal[a \div 100]

\* the week that follows week a in a calendar
Following(cal, a) ==
    IF a % 100 < cal[a \div 100] THEN a + 1 ELSE (a \div 100 + 1) * 100 + 1

\* C16: over every calendar whose years have 52 or 53 weeks, and all week
\* numbers a and b of it, isConsecutiveWeek(a, b) is true exactly when b is
\* the week that follows a; so it is false for week 52 of a 53-week year and
\* week 1 of the next year.
ConsecutiveIffFollowing ==
    calc.op = "isConsecutiveWeek"
    => \A cal \in Calendars :
          (ValidIn(cal, calc.args[1]) /\ ValidIn(cal, calc.args[2]))
          => (calc.result[1] <=> calc.args[2] = Following(cal, calc.args[1]))

\* C17: isConsecutiveWeek(a, a + 1) is true for every a with week <= 51;
\* (week 52 of Y, week 1 of Y + 1) is true; (week 51 of Y, week 1 of Y + 1)
\* is false; (week 52 of Y, week 53 of Y) is true.
ConsecutiveCases ==
    calc.op = "isConsecutiveWeek"
    => LET a == calc.args[1]
           b == calc.args[2]
           r == calc.result[1]
       IN  /\ (a # 0 /\ a % 100 <= 51 /\ b = a + 1) => r
           /\ (a % 100 = 52 /\ b = (a \div 100 + 1) * 100 + 1) => r
           /\ (a % 100 = 51 /\ b = (a \div 100 + 1) * 100 + 1) => ~r
           /\ (a % 100 = 52 /\ b = a + 1) => r

\* the turn of the year has been asked and answered: 2024-52 and 2025-01
YearTurnAnswered ==
    /\ calc.op = "isConsecutiveWeek"
    /\ calc.args = <<202452, 202501>>
    /\ calc.result = <<TRUE>>

(***************************************************************************)
(* Invitations.                                                            *)
(***************************************************************************)
\* C18: checkInviteEligibility refuses whenever the user is missing or
\* inactive, has no streak row, or has currentStreak below the threshold;
\* when it reports eligible, invitesRemaining is the cap minus the invites
\* it counts as used, and is at least 1.
EligibilityFailsClosed ==
    \A e \in Emails :
        /\ (\/ ~users[e].exists
            \/ ~users[e].isActive
            \/ ~streaks[e].exists
            \/ streaks[e].currentStreak < config.streakRequired)
           => CheckInviteEligibility(e) # "eligible"
        /\ CheckInviteEligibility(e) = "eligible"
           => /\ InvitesRemaining(e) = config.maxInvitesPerUser - InvitesUsed(e)
              /\ InvitesRemaining(e) >= 1

\* sendInvitation has checked an inviter and found one invitation remaining
EligibleWithOneRemaining ==
    \E p \in Procs :
        /\ pc[p] = "invite_user"
        /\ CheckInviteEligibility(loc[p].user) = "eligible"
        /\ InvitesRemaining(loc[p].user) = 1

\* C19: a user whose inviteCount, the lifetime counter of invitations sent,
\* has reached the cap is refused by checkInviteEligibility, whatever the
\* streak and whatever the statuses of the invitations sent.
CapReachedFailsCheck ==
    \A e \in Emails :
        (users[e].exists /\ users[e].inviteCount >= config.maxInvitesPerUser)
        => CheckInviteEligibility(e) # "eligible"

\* C20: in every reachable state no user has more than the cap of
\* invitations with status pending or accepted, also when sendInvitation
\* calls of one inviter interleave between the check and the create.
SentInvitesWithinCap ==
    \A e \in Emails : SentInvites(e) <= config.maxInvitesPerUser

\* C21: in every reachable state no two pending invitations that have not
\* expired are for the same address, also when sendInvitation calls for one
\* address interleave between the pending-invite check and the create.
OnePendingPerInvitee ==
    ~ \E i, j \in DOMAIN invites :
         /\ i # j
         /\ invites[i].inviteeEmail = invites[j].inviteeEmail
         /\ invites[i].status = "pending" /\ invites[i].expiresAt > now
         /\ invites[j].status = "pending" /\ invites[j].expiresAt > now

\* the reasons checkInviteEligibility refuses with
IneligibleReasons ==
    {"User not found or inactive", "No submission history",
     "Requires consecutive weeks", "Maximum invites reached"}

\* C22: when sendInvitation fails because the inviter is not eligible, the
\* address belongs to a member, or a pending invitation that has not expired
\* is there for the address, it returns the failure as a value and changes
\* nothing: no invitation is created, inviteCount is unchanged, no
\* invitation mail is sent.
RefusedInvitationChangesNothing ==
    [][\A p \in Procs :
          LET refused ==
                 \/ /\ pc[p] = "idle" /\ pc' = pc
                    /\ last' # last /\ last'.op = "sendInvitation"
                 \/ /\ pc[p] = "invite_user" /\ pc'[p] # pc[p]
                    /\ users[loc[p].email].exists
                 \/ /\ pc[p] = "invite_pending" /\ pc'[p] # pc[p]
                    /\ \E i \in DOMAIN invites :
                          /\ invites[i].inviteeEmail = loc[p].email
                          /\ invites[i].status = "pending"
                          /\ invites[i].expiresAt > now
          IN  refused
              => /\ pc'[p] = "idle"
                 /\ last'.op = "sendInvitation"
                 /\ last'.result \in IneligibleReasons
                       \cup {"User is already a member",
                             "Pending invitation already exists"}
                 /\ invites' = invites
                 /\ users' = users
                 /\ history'.mailed = history.mailed]_vars

\* an invitation has been refused because one was pending for the address
PendingInviteRefused ==
    /\ last = [op |-> "sendInvitation",
               result |-> "Pending invitation already exists"]
    /\ \E i \in DOMAIN invites : invites[i].status = "pending"

\* C23: once an invitation is accepted or expired its status never changes
\* again, under every interleaving of processInviteAcceptance with
\* cleanupExpiredInvites.
InviteStatusFinal ==
    [][\A i \in DOMAIN invites :
          invites[i].status \in {"accepted", "expired"}
          => invites'[i].status = invites[i].status]_vars

\* C24: among the processInviteAcceptance calls for one token, one after the
\* other or interleaved, at most one returns success, and at most one user is
\* created for the invitee's address.
OneAcceptancePerToken ==
    /\ \A t \in DOMAIN invites : history.accepts[t] <= 1
    /\ \A e \in Emails : history.created[e] <= 1

\* a link has been accepted while a second click on it was being processed
SecondClickInFlight ==
    \E t \in DOMAIN invites :
        /\ history.accepts[t] = 1
        /\ \E p \in Procs :
              /\ loc[p].op = "processInviteAcceptance"
              /\ loc[p].invite = t
              /\ pc[p] \in {"accept_create", "accept_user"}

\* C25: sendInvitation creates the invitation as pending with expiresAt the
\* instant of sending plus the configured number of days (7 by default);
\* processInviteAcceptance at any instant after expiresAt returns 'Invitation
\* has expired', leaves the invitation expired and creates no user and no
\* streak row.
ExpiryEnforced ==
    [][\A p \in Procs :
          /\ (pc[p] = "invite_pending" /\ pc'[p] = "invite_create")
             => loc'[p].expiresAt = now + config.inviteExpiryDays
          /\ (pc[p] = "invite_create" /\ pc'[p] # pc[p])
             => /\ Len(invites') = Len(invites) + 1
                /\ invites'[Len(invites')].status = "pending"
                /\ invites'[Len(invites')].expiresAt = loc[p].expiresAt
          /\ (pc[p] = "idle" /\ pc'[p] \in {"accept_user", "accept_expire"})
             => (pc'[p] = "accept_expire"
                 <=> now > invites[loc'[p].invite].expiresAt)
          /\ (pc[p] = "accept_expire" /\ pc'[p] # pc[p])
             => /\ invites'[loc[p].invite].status = "expired"
                /\ last' = [op |-> "processInviteAcceptance",
                            result |-> "Invitation has expired"]
                /\ users' = users
                /\ streaks' = streaks]_vars

\* a link sent by sendInvitation has been clicked after its expiry date
ExpiredLinkRefused ==
    /\ last = [op |-> "processInviteAcceptance",
               result |-> "Invitation has expired"]
    /\ \E i \in DOMAIN invites :
          /\ i > Len(SeedInvites)
          /\ invites[i].status = "expired"
          /\ invites[i].expiresAt < now

\* C26: processInviteAcceptance for a pending invitation that has not
\* expired, whose invitee is a member already, returns 'User already
\* exists', sets the invitation accepted and leaves the users and all
\* streak rows unchanged.
AlreadyMemberMarksAccepted ==
    [][\A p \in Procs :
          /\ (pc[p] = "accept_user" /\ pc'[p] # pc[p]
               /\ users[loc[p].email].exists)
             => pc'[p] = "accept_mark"
          /\ (pc[p] = "accept_mark" /\ pc'[p] # pc[p])
             => /\ invites'[loc[p].invite].status = "accepted"
                /\ last' = [op |-> "processInviteAcceptance",
                            result |-> "User already exists"]
                /\ users' = users
                /\ streaks' = streaks]_vars

\* a link has been clicked whose invitee had become a member
AlreadyMemberReturned ==
    /\ last = [op |-> "processInviteAcceptance", result |-> "User already exists"]
    /\ \E i \in DOMAIN invites :
          /\ invites[i].status = "accepted"
          /\ invites[i].inviteeEmail \in Emails
          /\ users[invites[i].inviteeEmail].exists
          /\ history.accepts[i] = 0

\* no acceptance is being processed, and every user an acceptance has
\* created has a streak row and an invitation that is not pending any more
AcceptanceWhole ==
    (\A p \in Procs : loc[p].op # "processInviteAcceptance")
    => \A e \in Emails :
          history.created[e] > 0
          => /\ streaks[e].exists
             /\ invites[history.createdBy[e]].status # "pending"

\* C27: a successful processInviteAcceptance leaves an active user for the
\* invitee's address, a streak row for the user, created with currentStreak
\* 0, longestStreak 0 and canInvite false, and the invitation accepted; no
\* call that has returned or thrown leaves a new user without a streak row
\* or with the invitation still pending.
AcceptanceAllOrNothing ==
    [][/\ \A p \in Procs :
            /\ (pc[p] = "accept_streak" /\ pc'[p] = "accept_status")
               => /\ streaks'[loc[p].email].exists
                  /\ streaks'[loc[p].email].currentStreak = 0
                  /\ streaks'[loc[p].email].longestStreak = 0
                  /\ ~streaks'[loc[p].email].canInvite
            /\ (pc[p] = "accept_status" /\ pc'[p] # pc[p])
               => /\ last' = [op |-> "processInviteAcceptance",
                              result |-> "success"]
                  /\ users'[loc[p].email].exists
                  /\ users'[loc[p].email].isActive
                  /\ streaks'[loc[p].email].exists
                  /\ invites'[loc[p].invite].status = "accepted"
       /\ AcceptanceWhole']_vars

(***************************************************************************)
(* Ordering and notifications.                                             *)
(***************************************************************************)
\* C28: within closeWeekAndCompile the streak updates of all active users
\* are done before the week is marked compiled: in no state, the
\* intermediate ones of a run included, is the week compiled while the run
\* still has streak updates to apply.
StreaksBeforeCompiled ==
    \A p \in Procs :
        pc[p] \in {"close_users", "close_streak"}
        => weeks[loc[p].week].status # "compiled"

\* C29: a failure of the mailer changes neither the state an operation
\* leaves nor its result: after the prompt, startNewWeek returns success;
\* after the compilation, closeWeekAndCompile marks the week compiled and
\* goes on to the streaks; after the confirmation, processInboundEmail
\* returns success with the submission stored; after the invitation mail,
\* sendInvitation increments inviteCount and returns success with the
\* invitation pending.
MailFailureChangesNothing ==
    [][\A p \in Procs :
          /\ (pc[p] = "start_users" /\ pc'[p] # pc[p])
             => /\ last' = [op |-> "startNewWeek", result |-> "success"]
                /\ weeks'[loc[p].week].status = "open"
          /\ (pc[p] = "close_send" /\ pc'[p] # pc[p])
             => /\ pc'[p] = "close_users"
                /\ weeks'[loc[p].week].status = "compiled"
          /\ (pc[p] = "submit_update" /\ pc'[p] # pc[p])
             => /\ last' = [op |-> "processInboundEmail", result |-> "success"]
                /\ HasSubmission(submissions', loc[p].user, loc[p].week)
          /\ (pc[p] = "invite_send" /\ pc'[p] # pc[p])
             => /\ last' = [op |-> "sendInvitation", result |-> "success"]
                /\ invites'[loc[p].invite].status = "pending"
                /\ users'[loc[p].user].inviteCount
                      = users[loc[p].user].inviteCount + 1]_vars

\* C30: inviteCount of every user equals the number of invitation rows
\* sendInvitation has created for the user as inviter, whenever no
\* sendInvitation of that user stands between its create and its increment.
InviteCountMatchesRows ==
    \A e \in Emails :
        (/\ users[e].exists
         /\ \A p \in Procs : ~(pc[p] = "invite_send" /\ loc[p].user = e))
        => users[e].inviteCount
              = Cardinality({i \in DOMAIN invites : invites[i].inviterId = e})

(***************************************************************************)
(* Recovery and the administrator's override.                              *)
(***************************************************************************)
\* a closed week that no run of closeWeekAndCompile holds stays closed in
\* every step of the schedule, however long the clock runs
AbandonedWeekStaysClosed ==
    [][\A w \in DOMAIN weeks :
          (/\ weeks[w].status = "closed"
           /\ \A p \in Procs : ~(loc[p].op = "closeWeekAndCompile"
                                  /\ loc[p].week = w))
          => /\ weeks'[w].status = "closed"
             /\ \A p \in Procs : ~(loc'[p].op = "closeWeekAndCompile"
                                    /\ loc'[p].week = w)]_vars

\* C31: every week that reaches status closed eventually reaches status
\* compiled, when the weekly jobs keep firing and the compilation mail
\* eventually goes out: a week left closed by a run that aborted is taken
\* up again by a later scheduled run.
ClosedWeekGetsCompiled ==
    \A w \in 1..MaxWeeks :
        (w \in DOMAIN weeks /\ weeks[w].status = "closed")
        ~> (w \in DOMAIN weeks /\ weeks[w].status = "compiled")

\* C32: manualCompileWeek never changes the status of a week that is open:
\* the week it writes compiled is not open at that moment, so no week goes
\* from open to compiled in one step.
ManualCompileSparesOpenWeeks ==
    [][\A p \in Procs :
          (pc[p] = "manual_compile" /\ pc'[p] # pc[p])
          => /\ weeks[loc[p].week].status # "open"
             /\ \A w \in DOMAIN weeks :
                   weeks[w].status = "open" => weeks'[w].status = "open"]_vars

\* C33: startNewWeek is not blocked by a week that is closed and not yet
\* compiled: it refuses with 'Week already open' only when a week is open,
\* so a state with one week open beside an earlier week still closed is
\* reachable.
ClosedWeekBlocksNothing ==
    [][(last' # last /\ last' = [op |-> "startNewWeek",
                                 result |-> "Week already open"])
       => OpenWeeks # {}]_vars

\* a week is open while an earlier one is still closed
OpenBesideClosed ==
    \E v \in DOMAIN weeks, w \in DOMAIN weeks :
        /\ v < w
        /\ weeks[v].status = "closed"
        /\ weeks[w].status = "open"

(***************************************************************************)
(* The two streak rules and the sweep.                                     *)
(***************************************************************************)
\* C34: for every pair of a last submission week and a week, the rule of
\* the submission and the rule of the close agree on whether the streak
\* continues, the turn of the year included.
ContinuityRulesAgree ==
    calc.op = "continuity" => calc.result[1] = calc.result[2]

\* C35: when checkAllUsersEligibility completes, every active user with a
\* streak row has canInvite = (currentStreak >= threshold and invitations
\* used < cap); every step of the check notifies exactly the users whose
\* flag it turns from false to true, and writes no row whose flag was
\* right already.
SweepCorrectsFlags ==
    [][/\ (last' # last /\ last' = [op |-> "checkAllUsersEligibility",
                                    result |-> "success"])
          => \A e \in Emails :
                (users'[e].exists /\ users'[e].isActive /\ streaks'[e].exists)
                => streaks'[e].canInvite
                      = (/\ streaks'[e].currentStreak >= config.streakRequired
                         /\ InvitesUsed(e) < config.maxInvitesPerUser)
       /\ \A p \in Procs :
             (pc[p] = "sweep_update" /\ loc'[p] # loc[p])
             => \A e \in Emails :
                   /\ eligNotified'[e] = eligNotified[e]
                         + (IF ~streaks[e].canInvite /\ streaks'[e].canInvite
                            THEN 1 ELSE 0)
                   /\ streaks'[e] # streaks[e]
                      => streaks[e].canInvite
                            # (/\ streaks[e].currentStreak >= config.streakRequired
                               /\ InvitesUsed(e) < config.maxInvitesPerUser)]_vars

\* the daily check has completed after it turned a flag on and notified
\* the user
SweepGrantedEligibility ==
    /\ last = [op |-> "checkAllUsersEligibility", result |-> "success"]
    /\ \E e \in Emails : history.sweepGrants[e] >= 1 /\ streaks[e].canInvite

\* C36: the flag the streak update of the close stores for a user is the
\* value checkAllUsersEligibility computes for the user, so a check that
\* runs right after the close changes no flag and notifies nobody.
CloseStoresSweepValue ==
    [][\A p \in Procs :
          (pc[p] = "close_streak" /\ loc'[p] # loc[p])
          => LET u == Head(loc[p].todo)
             IN  (users[u].isActive /\ streaks'[u].exists)
                 => streaks'[u].canInvite
                       = (/\ streaks'[u].currentStreak >= config.streakRequired
                          /\ InvitesUsed(u) < config.maxInvitesPerUser)]_vars

\* C37: checkAllUsersEligibility treats the users independently: when the
\* store update of one user fails, the run still corrects the flag of every
\* other active user, so when it returns every active user with a streak
\* row other than the one whose update ended the run has the flag the
\* check computes.
SweepSurvivesFailure ==
    [][\A p \in Procs :
          (pc[p] = "sweep_update" /\ pc'[p] = "idle")
          => \A e \in Emails \ {Head(loc[p].todo)} :
                (users'[e].exists /\ users'[e].isActive /\ streaks'[e].exists)
                => streaks'[e].canInvite
                      = (/\ streaks'[e].currentStreak >= config.streakRequired
                         /\ InvitesUsed(e) < config.maxInvitesPerUser)]_vars

(***************************************************************************)
(* Intake.                                                                 *)
(***************************************************************************)
\* C38: an email that arrives after the deadline of the open week is not
\* stored as a submission of that week, whether or not closeWeekAndCompile
\* has run: no submission row is created for a week at an instant after
\* the week's deadline (each email is processed within one instant).
NoSubmissionAfterDeadline ==
    [][\A e \in Emails : \A w \in DOMAIN weeks :
          (HasSubmission(submissions', e, w) /\ ~HasSubmission(submissions, e, w))
          => now <= weeks[w].deadline]_vars

\* C39: at every instant the three expiry tests agree on every pending
\* invitation: processInviteAcceptance takes it as expired exactly when
\* cleanupExpiredInvites would expire it, and exactly when sendInvitation's
\* lookup no longer takes it as blocking; so at the expiry date itself no
\* second invitation can be created while the first can be accepted.
ExpiryTestsAgree ==
    \A i \in DOMAIN invites :
        invites[i].status = "pending"
        => /\ ExpiredAtAcceptance(i) = ExpiredAtCleanup(i)
           /\ ExpiredAtAcceptance(i) = ~StillBlocksSending(i)

\* C40: only users that exist and are active submit: processInboundEmail
\* for any other sender returns 'Unknown user' and writes nothing, and
\* every submission row and every streak row it writes is the row of its
\* sender, a user that exists and is active, whatever the weeks are.
OnlyActiveMembersSubmit ==
    [][/\ (last' # last /\ last' = [op |-> "processInboundEmail",
                                    result |-> "Unknown user"])
          => submissions' = submissions /\ streaks' = streaks
       /\ \A p \in Procs :
             (loc[p].op = "processInboundEmail" /\ loc'[p] # loc[p])
             => /\ users[loc[p].user].exists /\ users[loc[p].user].isActive
                /\ \A e \in Emails \ {loc[p].user} :
                      /\ streaks'[e] = streaks[e]
                      /\ \A w \in DOMAIN weeks :
                            HasSubmission(submissions', e, w)
                               = HasSubmission(submissions, e, w)]_vars

\* the email of a sender who is not an active user has been refused while
\* a week is open and a deactivated user exists
InactiveSenderRefused ==
    /\ last = [op |-> "processInboundEmail", result |-> "Unknown user"]
    /\ OpenWeeks # {}
    /\ \E e \in Emails : users[e].exists /\ ~users[e].isActive

====
